---- MODULE Spec2Model ----
(***************************************************************************)
(* A model of the HTML refinement pipeline of src/query/refine_html.py:    *)
(* the Artifact Locator (find_latest_generated_file), the Episode          *)
(* Processor (refine_episode), the Range Driver (refine_episode_range)     *)
(* and the top-level run (main), over a model of the episode directory     *)
(* tree, the clock and the two external collaborators.                     *)
(*                                                                         *)
(* File names are sequences of symbols.  A symbol is one character, or one *)
(* of the literals the code itself writes into names (episode, step,       *)
(* refined, html, png), kept whole.  No two symbols start with the same    *)
(* character, so comparing names symbol by symbol is comparing them        *)
(* character by character.                                                 *)
(***************************************************************************)
EXTENDS Integers, Sequences, FiniteSets, TLC

(***************************************************************************)
(* Bounds of the model.                                                    *)
(***************************************************************************)
MaxEpisode == 2
MaxCalls == 2
MaxClock == 2
MaxFaults == 1
MaxText == 7

(***************************************************************************)
(* Names, their order and glob matching.                                   *)
(***************************************************************************)

\* The symbols in code point order of their first character, as Python's
\* str comparison orders them.
CodePointOrder ==
    << ".", "0", "1", "2", "3", "4", "5", "6", "7", "8", "9",
       "[", "]", "_", "a", "b", "episode", "html", "jpg", "png",
       "refined", "step", "x" >>

Ord(c) == CHOOSE i \in 1..Len(CodePointOrder) : CodePointOrder[i] = c

\* a < b for two names, as str.__lt__ (and so sorted() on paths of one
\* directory) decides it: the first differing symbol decides, and a proper
\* prefix is smaller.
RECURSIVE LexLess(_, _)
LexLess(a, b) ==
    IF b = << >> THEN FALSE
    ELSE IF a = << >> THEN TRUE
    ELSE IF Head(a) # Head(b) THEN Ord(Head(a)) < Ord(Head(b))
    ELSE LexLess(Tail(a), Tail(b))

\* sorted(names): the names in ascending order.
RECURSIVE Sorted(_)
Sorted(S) ==
    IF S = {} THEN << >>
    ELSE LET m == CHOOSE x \in S : \A y \in S \ {x} : LexLess(x, y)
         IN  << m >> \o Sorted(S \ {m})

\* The index of the "]" closing a character class that opens at p[1], or 0
\* when p[1] opens none (fnmatch: a "]" right after the "[" is a member).
ClassEnd(p) ==
    IF \E j \in 3..Len(p) : p[j] = "]"
    THEN CHOOSE j \in 3..Len(p) : p[j] = "]" /\ \A k \in 3..(j - 1) : p[k] # "]"
    ELSE 0

\* fnmatch of a name against a pattern, as Path.glob applies it to the
\* entries of one directory: "*" is any run of symbols, "?" any one symbol,
\* "[...]" one symbol of the class, anything else itself.
RECURSIVE GlobMatch(_, _)
GlobMatch(p, n) ==
    IF p = << >> THEN n = << >>
    ELSE IF Head(p) = "*"
         THEN GlobMatch(Tail(p), n) \/ (n # << >> /\ GlobMatch(p, Tail(n)))
    ELSE IF n = << >> THEN FALSE
    ELSE IF Head(p) = "?" THEN GlobMatch(Tail(p), Tail(n))
    ELSE IF Head(p) = "[" /\ ClassEnd(p) > 0
         THEN /\ Head(n) \in { p[k] : k \in 2..(ClassEnd(p) - 1) }
              /\ GlobMatch(SubSeq(p, ClassEnd(p) + 1, Len(p)), Tail(n))
    ELSE Head(n) = Head(p) /\ GlobMatch(Tail(p), Tail(n))

\* dir.glob(pattern): the entries of a directory that match.
Glob(entries, pattern) == { n \in entries : GlobMatch(pattern, n) }

\* str(episode_id), for the ids of the model.
Digits == << "0", "1", "2", "3", "4", "5", "6", "7", "8", "9" >>

IdStr(id) == Digits[id + 1]

\* Path.stem of a name that ends in one suffix: the name without ".png".
Stem(name) == SubSeq(name, 1, Len(name) - 2)

(***************************************************************************)
(* The clock.  A reading is a whole number of seconds; strftime with       *)
(* '%Y%m%d_%H%M%S' writes the reading out in full, strftime with '%Y%m%d'  *)
(* keeps its day.                                                          *)
(***************************************************************************)
SecondsPerDay == 2

\* datetime.now().strftime('%Y%m%d_%H%M%S'): two digits, zero padded.
StampStr(t) == << Digits[(t \div 10) + 1], Digits[(t % 10) + 1] >>

\* datetime.now().strftime('%Y%m%d')
DayOf(t) == t \div SecondsPerDay

(***************************************************************************)
(* The names the pipeline reads and writes.                                *)
(***************************************************************************)

\* f"episode_{episode_id}_step_*.png"
GroundTruthPattern(id) ==
    << "episode", "_", IdStr(id), "_", "step", "_", "*", ".", "png" >>

\* f"{step_name}_*.{'html' if subdir == 'html' else 'png'}"
LocatorPattern(step_name, subdir) ==
    step_name \o << "_", "*", "." >> \o
    << (IF subdir = "html" THEN "html" ELSE "png") >>

\* f"{step_name}_refined_*.html"
ResumePattern(step_name) ==
    step_name \o << "_", "refined", "_", "*", ".", "html" >>

\* f"{step_name}_refined_{timestamp}.html"
HtmlFilename(step_name, timestamp) ==
    step_name \o << "_", "refined", "_" >> \o timestamp \o << ".", "html" >>

\* A screenshot name that leaves the timestamp out.
ScreenshotFilenameUnstamped(step_name, timestamp) ==
    step_name \o << "_", "refined", ".", "png" >>

\* f"{step_name}_refined_{timestamp}.png"
ScreenshotFilename(step_name, timestamp) ==
    step_name \o << "_", "refined", "_" >> \o timestamp \o << ".", "png" >>

(***************************************************************************)
(* Artifact Locator: find_latest_generated_file.  dirExists says whether   *)
(* generated/<subdir> exists, entries are its files.  The result is a set: *)
(* empty for None, else the one path returned.                             *)
(***************************************************************************)
\* LastOf taking the first element.
FirstOf(seq) == seq[1]

\* matching_files[-1]
LastOf(seq) == seq[Len(seq)]

\* find_latest_generated_file with a pattern that leaves the step name out.
FindLatestOfAnyStep(dirExists, entries, step_name, subdir) ==
    IF ~dirExists
    THEN {}
    ELSE LET matching_files == Sorted(Glob(entries, << "*", ".", "png" >>))
         IN  IF matching_files = << >> THEN {} ELSE { LastOf(matching_files) }

FindLatestGeneratedFile(dirExists, entries, step_name, subdir) ==
    IF ~dirExists THEN {}
    ELSE LET matching_files == Sorted(Glob(entries, LocatorPattern(step_name, subdir)))
         IN  IF matching_files = << >> THEN {} ELSE { LastOf(matching_files) }

(***************************************************************************)
(* State.                                                                  *)
(*   input   the tree the pipeline reads: the base directory, the episode  *)
(*           directories with their files, generated/ and                  *)
(*           generated/screenshots with its files                          *)
(*   output  the tree it writes: per episode regenerated/ ("absent",       *)
(*           "ready": there with html, screenshots and logs, "blocked": a  *)
(*           path that mkdir cannot make a directory), the files of        *)
(*           regenerated/html and regenerated/screenshots, the lines       *)
(*           appended to the files of regenerated/logs, and the range      *)
(*           summaries written into the base directory                     *)
(*   now     the clock                                                     *)
(*   pc      the statement the single thread is at ("start": a process    *)
(*           that is about to run main or refine_episode_range; "idle": no *)
(*           call is running)                                              *)
(*   ep      the frame of the running refine_episode                       *)
(*   rng     the frame of the refine_episode_range (and main) that runs    *)
(*           or has run                                                    *)
(*   ret     what the last top-level call gave its caller                  *)
(*   calls   the number of top-level calls made                            *)
(*   faults  the number of failures the environment has caused: a failing  *)
(*           service call, write, append or render                         *)
(*   prev    per episode, how each step ended in the last refine_episode   *)
(*           invocation that returned                                      *)
(*   counted per episode, the step names counted as processed so far, one  *)
(*           element per count                                             *)
(***************************************************************************)
(***************************************************************************)
(* Comparison Requester: refine_html and _clean_html_response.  A text is  *)
(* a sequence of symbols: the fence of three backquotes, written "fence",  *)
(* the word html, a character of content and a whitespace character.      *)
(***************************************************************************)
Fence == << "fence" >>

FenceHtml == << "fence", "html" >>

Whitespace == { " " }

Alphabet == { "fence", "html", "x", " " }

Texts == UNION { [ 1..n -> Alphabet ] : n \in 0..MaxText }

\* The first index from i on at which sep occurs in text, 0 when there is none.
RECURSIVE Find(_, _, _)
Find(text, sep, i) ==
    IF i + Len(sep) - 1 > Len(text) THEN 0
    ELSE IF SubSeq(text, i, i + Len(sep) - 1) = sep THEN i
    ELSE Find(text, sep, i + 1)

\* sep in text
Contains(text, sep) == Find(text, sep, 1) # 0

\* text.split(sep)[0]
SplitFirst(text, sep) ==
    LET i == Find(text, sep, 1)
    IN  IF i = 0 THEN text ELSE SubSeq(text, 1, i - 1)

\* text.split(sep)[1], for a text that contains sep
SplitSecond(text, sep) ==
    LET i == Find(text, sep, 1)
    IN  SplitFirst(SubSeq(text, i + Len(sep), Len(text)), sep)

\* text.strip()
RECURSIVE Strip(_)
Strip(text) ==
    IF text = << >> THEN text
    ELSE IF Head(text) \in Whitespace THEN Strip(Tail(text))
    ELSE IF text[Len(text)] \in Whitespace THEN Strip(SubSeq(text, 1, Len(text) - 1))
    ELSE text

\* _clean_html_response with the two tests in the other order.
CleanPlainFenceFirst(html) ==
    Strip(IF Contains(html, Fence) THEN SplitFirst(SplitSecond(html, Fence), Fence)
          ELSE IF Contains(html, FenceHtml)
               THEN SplitFirst(SplitSecond(html, FenceHtml), Fence)
               ELSE html)

\* _clean_html_response that returns html without the strip of line 100.
CleanUnstripped(html) ==
    IF Contains(html, FenceHtml)
    THEN SplitFirst(SplitSecond(html, FenceHtml), Fence)
    ELSE IF Contains(html, Fence) THEN SplitFirst(SplitSecond(html, Fence), Fence)
         ELSE html

\* _clean_html_response, lines 92-100.
CleanHtmlResponse(html) ==
    Strip(IF Contains(html, FenceHtml)
          THEN SplitFirst(SplitSecond(html, FenceHtml), Fence)
          ELSE IF Contains(html, Fence) THEN SplitFirst(SplitSecond(html, Fence), Fence)
               ELSE html)

\* The exception the comparison service raises when a request fails.
ServiceError == "comparison failed"

\* What a call leaves: the exception raised ("none" when it returned), the
\* images read, the requests sent and the text returned.
Outcome(raised, reads, requests, html) ==
    [ raised |-> raised, reads |-> reads, requests |-> requests, html |-> html ]

\* refine_html that checks the ground-truth path only: the candidate is
\* found missing when it is opened, after the ground truth has been read.
RefineHtmlCheckingOnePath(gt_exists, cand_exists, service, response) ==
    IF ~gt_exists THEN Outcome("FileNotFoundError", 0, 0, << >>)
    ELSE IF ~cand_exists THEN Outcome("FileNotFoundError", 1, 0, << >>)
    ELSE IF service # "ok" THEN Outcome(service, 2, 1, << >>)
    ELSE Outcome("none", 2, 1, CleanHtmlResponse(response))

\* refine_html, lines 117-182: both paths are checked before any image is
\* encoded; one request is sent; what the service raises is raised again
\* by the except clause (the bare raise of line 182); the answer is cleaned.
RefineHtml(gt_exists, cand_exists, service, response) ==
    IF ~gt_exists \/ ~cand_exists THEN Outcome("FileNotFoundError", 0, 0, << >>)
    ELSE IF service # "ok" THEN Outcome(service, 2, 1, << >>)
    ELSE Outcome("none", 2, 1, CleanHtmlResponse(response))

\* No call of the requester has been made.
NoCall ==
    [ fn |-> "none", html |-> << >>, gt_exists |-> TRUE, cand_exists |-> TRUE,
      service |-> "ok", out |-> Outcome("none", 0, 0, << >>) ]

VARIABLES input, output, now, pc, ep, rng, ret, calls, faults, prev, counted,
          call

vars == << input, output, now, pc, ep, rng, ret, calls, faults, prev, counted,
           call >>

\* The ids a range can name; episode directories exist for 1..MaxEpisode only.
Ids == 0..(MaxEpisode + 1)

EpisodeIds == 1..MaxEpisode

(***************************************************************************)
(* Episode Processor: refine_episode.                                      *)
(***************************************************************************)

\* stats = {'episode_id': ..., 'steps_processed': 0, 'steps_skipped': 0, 'errors': []}
NewStats(episode_id) ==
    [ episode_id |-> episode_id, steps_processed |-> 0, steps_skipped |-> 0,
      errors |-> << >> ]

\* WithError counting a skipped step along with the error.
WithErrorAndSkip(stats, step_name, text) ==
    [ stats EXCEPT !.errors = Append(@, [ step |-> step_name, msg |-> text ]),
                   !.steps_skipped = @ + 1 ]

\* stats['errors'].append(text)
WithError(stats, step_name, text) ==
    [ stats EXCEPT !.errors = Append(@, [ step |-> step_name, msg |-> text ]) ]

\* stats['steps_skipped'] += 1
Skipped(stats) == [ stats EXCEPT !.steps_skipped = @ + 1 ]

\* stats['steps_processed'] += 1
Processed(stats) == [ stats EXCEPT !.steps_processed = @ + 1 ]

\* Caught with the failed step left out of the skipped count.
CaughtUncounted(stats, step_name, e) == WithError(stats, step_name, e)

\* Caught with the error string left out of the error list.
CaughtUnrecorded(stats, step_name, e) == Skipped(stats)

\* The except clause of the step: the error string names the step and
\* carries the exception's message, and the step counts as skipped.
Caught(stats, step_name, e) == Skipped(WithError(stats, step_name, e))

\* AlreadyRefined reading the episode's log instead of regenerated/html.
AlreadyRefinedByLog(htmlEntries, step_name) ==
    \E i \in 1..Len(output.logs[ep.id]) : output.logs[ep.id][i].entry.step_name = step_name

\* AlreadyRefined looking for a refined file without a timestamp.
AlreadyRefinedWithoutStamp(htmlEntries, step_name) ==
    Glob(htmlEntries, step_name \o << "_", "refined", ".", "html" >>) # {}

\* AlreadyRefined looking for the refined screenshot's suffix among the
\* markup files.
AlreadyRefinedByPng(htmlEntries, step_name) ==
    Glob(htmlEntries, step_name \o << "_", "refined", "_", "*", ".", "png" >>) # {}

\* existing_refined, as a truth value: some file of regenerated/html matches
\* the step's resume pattern.
AlreadyRefined(htmlEntries, step_name) ==
    Glob(htmlEntries, ResumePattern(step_name)) # {}

NoFrame ==
    [ caller |-> "none", id |-> 0, stats |-> NewStats(0), found |-> 0,
      todo |-> << >>, step_name |-> << >>, cand |-> {}, stamp |-> 0,
      html_path |-> << >>, wrote |-> << >>, rendered |-> FALSE, outcomes |-> << >>,
      events |-> << >> ]

\* EndStep that leaves a step that ended in error at the head of todo, to
\* be tried again.
EndStepRetrying(frame, state, stats) ==
    [ frame EXCEPT !.todo = IF state = "ERRORED" THEN @ ELSE Tail(@), !.stats = stats,
                   !.outcomes = Append(@, [ step |-> frame.step_name, state |-> state,
                                            wrote |-> frame.wrote ]),
                   !.step_name = << >>, !.cand = {}, !.stamp = 0,
                   !.html_path = << >>, !.wrote = << >>, !.rendered = FALSE ]

\* The frame once the step at the head of todo has ended in `state`; wrote
\* is the markup file the step left in regenerated/html, if any.
EndStep(frame, state, stats) ==
    [ frame EXCEPT !.todo = Tail(@), !.stats = stats,
                   !.outcomes = Append(@, [ step |-> frame.step_name, state |-> state,
                                            wrote |-> frame.wrote ]),
                   !.step_name = << >>, !.cand = {}, !.stamp = 0,
                   !.html_path = << >>, !.wrote = << >>, !.rendered = FALSE ]

\* Where the loop goes when the current step has ended.
AfterStep == IF Len(ep.todo) = 1 THEN "ep_return" ELSE "step_locate"

Event(frame, op) == [ frame EXCEPT !.events = Append(@, [ op |-> op, step |-> frame.step_name ]) ]

\* refine_episode that makes regenerated/ and its subdirectories before it
\* looks for generated/.
EnterEpisodeMakingDirsFirst(id, caller) ==
    LET frame == [ NoFrame EXCEPT !.caller = caller, !.id = id, !.stats = NewStats(id) ]
    IN  IF output.regen[id] = "blocked"
        THEN /\ ep' = frame
             /\ pc' = "ep_raise"
             /\ UNCHANGED output
        ELSE IF id \notin input.genDirs
        THEN /\ output' = [ output EXCEPT !.regen[id] = "ready" ]
             /\ ep' = [ frame EXCEPT !.stats = WithError(@, << >>, "No 'generated' directory found") ]
             /\ pc' = "ep_return"
        ELSE LET ground_truth_images == Sorted(Glob(input.gt[id], GroundTruthPattern(id)))
             IN  /\ output' = [ output EXCEPT !.regen[id] = "ready" ]
                 /\ IF ground_truth_images = << >>
                    THEN /\ ep' = [ frame EXCEPT !.stats = WithError(@, << >>, "No ground truth images found") ]
                         /\ pc' = "ep_return"
                    ELSE /\ ep' = [ frame EXCEPT !.todo = ground_truth_images,
                                                 !.found = Len(ground_truth_images) ]
                         /\ pc' = "step_locate"

\* The call of refine_episode(episode_dir, episode_id), up to the loop.
EnterEpisode(id, caller) ==
    LET frame == [ NoFrame EXCEPT !.caller = caller, !.id = id, !.stats = NewStats(id) ]
    IN  IF id \notin input.genDirs
        THEN /\ ep' = [ frame EXCEPT !.stats = WithError(@, << >>, "No 'generated' directory found") ]
             /\ pc' = "ep_return"
             /\ UNCHANGED output
        ELSE IF output.regen[id] = "blocked"
        THEN /\ ep' = frame
             /\ pc' = "ep_raise"
             /\ UNCHANGED output
        ELSE LET ground_truth_images == Sorted(Glob(input.gt[id], GroundTruthPattern(id)))
             IN  /\ output' = [ output EXCEPT !.regen[id] = "ready" ]
                 /\ IF ground_truth_images = << >>
                    THEN /\ ep' = [ frame EXCEPT !.stats = WithError(@, << >>, "No ground truth images found") ]
                         /\ pc' = "ep_return"
                    ELSE /\ ep' = [ frame EXCEPT !.todo = ground_truth_images,
                                                 !.found = Len(ground_truth_images) ]
                         /\ pc' = "step_locate"

\* The environment makes a call, a write or an append fail.
Fault == faults < MaxFaults /\ faults' = faults + 1

\* A direct call of refine_episode.
InvokeEpisode ==
    /\ pc = "idle"
    /\ calls < MaxCalls
    /\ \E id \in EpisodeIds :
          /\ id \in input.epDirs
          /\ EnterEpisode(id, "direct")
    /\ calls' = calls + 1
    /\ ret' = [ kind |-> "pending", code |-> 0 ]
    /\ UNCHANGED << call, input, now, rng, faults, prev, counted >>

\* Lines 314-325: the step's name and its candidate screenshot.
StepLocate ==
    /\ pc = "step_locate"
    /\ LET step_name == Stem(Head(ep.todo))
           generated_screenshot ==
               FindLatestGeneratedFile(ep.id \in input.shotDirs, input.shots[ep.id],
                                       step_name, "screenshots")
           frame == Event([ ep EXCEPT !.step_name = step_name,
                                      !.cand = generated_screenshot ], "locate")
       IN  IF generated_screenshot = {}
           THEN /\ ep' = EndStep(frame, "SKIPPED_NO_CANDIDATE", Skipped(ep.stats))
                /\ pc' = AfterStep
           ELSE /\ ep' = frame
                /\ pc' = "step_resume"
    /\ UNCHANGED << call, input, output, now, rng, ret, calls, faults, prev, counted >>

\* Lines 327-334: the resume check.
StepResume ==
    /\ pc = "step_resume"
    /\ LET frame == Event(ep, "resume")
       IN  IF AlreadyRefined(output.html[ep.id], ep.step_name)
           THEN /\ ep' = EndStep(frame, "SKIPPED_ALREADY_REFINED", Skipped(ep.stats))
                /\ pc' = AfterStep
           ELSE /\ ep' = frame
                /\ pc' = "step_refine"
    /\ UNCHANGED << call, input, output, now, rng, ret, calls, faults, prev, counted >>

\* Lines 339-343: the call of refine_html on the two images the globs
\* found; the service answers or fails, and what refine_html raises is what
\* the except clause of the step catches.
StepRefine ==
    /\ pc = "step_refine"
    /\ \E service \in { "ok", ServiceError } :
          LET frame == Event(ep, "compare")
              refined_html == RefineHtml(TRUE, TRUE, service, << >>)
          IN  IF refined_html.raised = "none"
              THEN /\ ep' = frame
                   /\ pc' = "step_save"
                   /\ UNCHANGED faults
              ELSE /\ Fault
                   /\ ep' = EndStep(frame, "ERRORED",
                                    Caught(ep.stats, ep.step_name, refined_html.raised))
                   /\ pc' = AfterStep
    /\ UNCHANGED << call, input, output, now, rng, ret, calls, prev, counted >>

\* Lines 345-356: one clock reading names both files; the markup is written.
\* The write can fail before the file is created, or after.
StepSave ==
    /\ pc = "step_save"
    /\ \E t \in now..MaxClock :
          LET html_filename == HtmlFilename(ep.step_name, StampStr(t))
              frame == Event([ ep EXCEPT !.stamp = t, !.html_path = html_filename ], "save")
              written == [ output EXCEPT !.html[ep.id] = @ \cup { html_filename } ]
          IN  /\ now' = t
              /\ \/ /\ output' = written
                    /\ ep' = [ frame EXCEPT !.wrote = html_filename ]
                    /\ pc' = "step_render"
                    /\ UNCHANGED faults
                 \/ /\ Fault
                    /\ \/ /\ output' = output
                          /\ ep' = EndStep(frame, "ERRORED",
                                           Caught(ep.stats, ep.step_name, "save failed"))
                       \/ /\ output' = written
                          /\ ep' = EndStep([ frame EXCEPT !.wrote = html_filename ], "ERRORED",
                                           Caught(ep.stats, ep.step_name, "save failed"))
                    /\ pc' = AfterStep
    /\ UNCHANGED << call, input, rng, ret, calls, prev, counted >>

\* Lines 234-239 of render_html run on a file system where the temporary
\* file stays behind: os.unlink raised and the except passed.
LeftBehind(out) == [ out EXCEPT !.temps = @ + 1 ]

\* Lines 358-361 and render_html.  The temporary file is created and
\* written at lines 196-198, before the try: a failure there reaches the
\* step, and when it is the write that fails the file, made with
\* delete=False, stays on disk.  Inside the try a render that succeeds
\* writes the screenshot and returns its path; without Playwright the
\* result is None (226-228); a failing render gives None too (230-232; the
\* screenshot may have been written before the failure).  The finally
\* clause unlinks the temporary file and swallows a failing unlink.
StepRender ==
    /\ pc = "step_render"
    /\ LET screenshot_filename == ScreenshotFilename(ep.step_name, StampStr(ep.stamp))
           frame == Event(ep, "render")
           shot == [ output EXCEPT !.png[ep.id] = @ \cup { screenshot_filename } ]
       IN  \/ /\ output' = shot
              /\ ep' = [ frame EXCEPT !.rendered = TRUE ]
              /\ pc' = "step_log"
              /\ UNCHANGED faults
           \/ /\ output' = output
              /\ ep' = [ frame EXCEPT !.rendered = FALSE ]
              /\ pc' = "step_log"
              /\ UNCHANGED faults
           \/ /\ Fault
              /\ output' \in { output, shot }
              /\ ep' = [ frame EXCEPT !.rendered = FALSE ]
              /\ pc' = "step_log"
           \/ /\ Fault
              /\ \/ /\ output' = LeftBehind(shot)
                    /\ ep' = [ frame EXCEPT !.rendered = TRUE ]
                 \/ /\ output' = LeftBehind(output)
                    /\ ep' = [ frame EXCEPT !.rendered = FALSE ]
              /\ pc' = "step_log"
           \/ /\ Fault
              /\ output' \in { output, LeftBehind(output) }
              /\ ep' = EndStep(frame, "ERRORED", Caught(ep.stats, ep.step_name, "temporary file failed"))
              /\ pc' = AfterStep
    /\ UNCHANGED << call, input, now, rng, ret, calls, prev, counted >>

\* LogEntry whose step_name is the name of the ground-truth image.
LogEntryNamingImage(frame, t) ==
    [ timestamp |-> t,
      step_name |-> Head(frame.todo),
      ground_truth |-> Head(frame.todo),
      generated_screenshot |-> frame.cand,
      refined_html |-> frame.html_path,
      refined_screenshot |->
          IF frame.rendered
          THEN { ScreenshotFilename(frame.step_name, StampStr(frame.stamp)) }
          ELSE {} ]

\* LogEntry naming the screenshot path whatever render_html returned.
LogEntryWithScreenshot(frame, t) ==
    [ timestamp |-> t,
      step_name |-> frame.step_name,
      ground_truth |-> Head(frame.todo),
      generated_screenshot |-> frame.cand,
      refined_html |-> frame.html_path,
      refined_screenshot |-> { ScreenshotFilename(frame.step_name, StampStr(frame.stamp)) } ]

\* The log entry of lines 364-371, its timestamp read at t.
LogEntry(frame, t) ==
    [ timestamp |-> t,
      step_name |-> frame.step_name,
      ground_truth |-> Head(frame.todo),
      generated_screenshot |-> frame.cand,
      refined_html |-> frame.html_path,
      refined_screenshot |->
          IF frame.rendered
          THEN { ScreenshotFilename(frame.step_name, StampStr(frame.stamp)) }
          ELSE {} ]

\* f"refinement_log_{datetime.now().strftime('%Y%m%d')}.jsonl", by its day.
LogFile(t) == DayOf(t)

\* The log file opened with 'w': the line replaces what the file held.
WriteLine(log, line) == Append(SelectSeq(log, LAMBDA l : l.file # line.file), line)

\* Lines 374-375: the log file is opened with 'a' and the line written at
\* its end; log holds the lines of regenerated/logs, each with its file.
AppendLine(log, line) == Append(log, line)

\* Lines 363-377: the entry takes a second clock reading, the file name a
\* third; the line is appended, or the append fails.
StepLog ==
    /\ pc = "step_log"
    /\ \E t1 \in now..MaxClock :
       \E t2 \in t1..MaxClock :
          LET frame == Event(ep, "log")
              line == [ file |-> LogFile(t2), entry |-> LogEntry(ep, t1) ]
          IN  /\ now' = t2
              /\ \/ /\ output' = [ output EXCEPT !.logs[ep.id] = AppendLine(@, line) ]
                    /\ ep' = EndStep(frame, "PROCESSED", Processed(ep.stats))
                    /\ UNCHANGED faults
                 \/ /\ Fault
                    /\ output' = output
                    /\ ep' = EndStep(frame, "ERRORED", Caught(ep.stats, ep.step_name, "log failed"))
              /\ pc' = AfterStep
    /\ UNCHANGED << call, input, rng, ret, calls, prev, counted >>

\* The steps of an invocation that ended as processed, in order.
ProcessedSteps(frame) ==
    LET done == SelectSeq(frame.outcomes, LAMBDA o : o.state = "PROCESSED")
    IN  [ i \in 1..Len(done) |-> done[i].step ]

\* What is kept of an invocation that has returned: how its steps ended,
\* and the steps it counted as processed.
Remember(frame) ==
    /\ prev' = [ prev EXCEPT ![frame.id] =
                   [ returned |-> TRUE,
                     outcomes |-> { frame.outcomes[i] : i \in 1..Len(frame.outcomes) } ] ]
    /\ counted' = [ counted EXCEPT ![frame.id] = @ \o ProcessedSteps(frame) ]

(***************************************************************************)
(* Range Driver: refine_episode_range, and main.                           *)
(***************************************************************************)

\* overall_stats of lines 422-429
NewOverall ==
    [ total_episodes |-> 0, episodes_processed |-> 0, episodes_skipped |-> 0,
      total_steps_processed |-> 0, total_steps_skipped |-> 0,
      episode_details |-> << >> ]

\* overall_stats['total_episodes'] += 1
Counted(overall) == [ overall EXCEPT !.total_episodes = @ + 1 ]

\* SkipEpisode counting the episode as processed as well.
SkipEpisodeAsProcessed(overall) ==
    [ overall EXCEPT !.episodes_skipped = @ + 1, !.episodes_processed = @ + 1 ]

\* Lines 438-448: the episode directory or its generated/ is missing.
SkipEpisode(overall) == [ overall EXCEPT !.episodes_skipped = @ + 1 ]

\* FoldEpisode that does not count the episode as processed.
FoldEpisodeUncounted(overall, episode_stats) ==
    [ overall EXCEPT !.total_steps_processed = @ + episode_stats.steps_processed,
                     !.total_steps_skipped = @ + episode_stats.steps_skipped,
                     !.episode_details = Append(@, episode_stats) ]

\* FoldEpisode that leaves the skipped steps out of the total.
FoldEpisodeDroppingSkipped(overall, episode_stats) ==
    [ overall EXCEPT !.episodes_processed = @ + 1,
                     !.total_steps_processed = @ + episode_stats.steps_processed,
                     !.episode_details = Append(@, episode_stats) ]

\* Lines 457-460: the stats of an episode folded into the aggregate.
FoldEpisode(overall, episode_stats) ==
    [ overall EXCEPT !.episodes_processed = @ + 1,
                     !.total_steps_processed = @ + episode_stats.steps_processed,
                     !.total_steps_skipped = @ + episode_stats.steps_skipped,
                     !.episode_details = Append(@, episode_stats) ]

\* ValidBounds letting a range start at 0.
ValidBoundsFromZero(start_id, end_id) == start_id >= 0 /\ end_id >= start_id

\* Lines 502-508 of main: the bounds it goes on with.
ValidBounds(start_id, end_id) == start_id >= 1 /\ end_id >= start_id

\* The frame of a range call: who made it, with which bounds and which
\* base directory ("none": unspecified), the id the loop is at, the
\* aggregate, and the ids visited so far.
NoRange ==
    [ via |-> "none", start_id |-> 0, end_id |-> 0, base_dir |-> "none", cur |-> 0,
      overall |-> NewOverall, visited |-> << >> ]

\* BaseDirProblem without the check that the directory exists.
BaseDirUnchecked(base_dir) == base_dir = "none"

\* Lines 407-413: no base directory was given, or it does not exist.
BaseDirProblem(base_dir) == base_dir = "none" \/ ~input.base

\* Lines 404-429: the base directory is resolved and checked, the stats
\* start at zero and the loop starts at start_id.
EnterRange(via, start_id, end_id, base_arg, episode_base_dir) ==
    LET base_dir == IF base_arg = "none" THEN episode_base_dir ELSE base_arg
        frame == [ NoRange EXCEPT !.via = via, !.start_id = start_id,
                                  !.end_id = end_id, !.base_dir = base_dir,
                                  !.cur = start_id ]
    IN  /\ rng' = frame
        /\ pc' = IF BaseDirProblem(base_dir) THEN "range_raise" ELSE "range_loop"

\* A direct call of refine_episode_range, in a process that has just started.
InvokeRange ==
    /\ pc = "start"
    /\ \E start_id \in Ids, end_id \in Ids,
          base_arg \in { "none", "path" }, episode_base_dir \in { "none", "path" } :
          EnterRange("direct", start_id, end_id, base_arg, episode_base_dir)
    /\ calls' = calls + 1
    /\ ret' = [ kind |-> "pending", code |-> 0 ]
    /\ UNCHANGED << call, input, output, now, ep, faults, prev, counted >>

\* main, lines 481-519: the bounds are checked, then the refiner is built
\* on base_dir and the range is run.
Main ==
    /\ pc = "start"
    /\ calls' = calls + 1
    /\ \E start_id \in Ids, end_id \in Ids, base_dir \in { "none", "path" } :
          IF ValidBounds(start_id, end_id)
          THEN /\ EnterRange("main", start_id, end_id, "none", base_dir)
               /\ ret' = [ kind |-> "pending", code |-> 0 ]
          ELSE /\ ret' = [ kind |-> "exit", code |-> 1 ]
               /\ rng' = [ NoRange EXCEPT !.via = "main", !.start_id = start_id,
                                          !.end_id = end_id, !.base_dir = base_dir,
                                          !.cur = start_id ]
               /\ pc' = "idle"
    /\ UNCHANGED << call, input, output, now, ep, faults, prev, counted >>

\* Lines 432-455: one id of the range.
RangeVisit ==
    /\ pc = "range_loop"
    /\ rng.cur <= rng.end_id
    /\ LET episode_id == rng.cur
           overall == Counted(rng.overall)
           seen == Append(rng.visited, episode_id)
       IN  IF episode_id \notin input.epDirs \/ episode_id \notin input.genDirs
           THEN /\ rng' = [ rng EXCEPT !.overall = SkipEpisode(overall),
                                       !.cur = @ + 1, !.visited = seen ]
                /\ UNCHANGED << pc, ep, output >>
           ELSE /\ rng' = [ rng EXCEPT !.overall = overall, !.visited = seen ]
                /\ EnterEpisode(episode_id, "range")
    /\ UNCHANGED << call, input, now, ret, calls, faults, prev, counted >>

\* return stats (line 385): to the direct caller, or to line 455 of the
\* range, which folds it in (lines 457-460) and goes on with the next id.
EpisodeReturn ==
    /\ pc = "ep_return"
    /\ Remember(ep)
    /\ ep' = NoFrame
    /\ IF ep.caller = "direct"
       THEN /\ ret' = [ kind |-> "episode", code |-> 0 ]
            /\ pc' = "idle"
            /\ UNCHANGED rng
       ELSE /\ rng' = [ rng EXCEPT !.overall = FoldEpisode(@, ep.stats), !.cur = @ + 1 ]
            /\ pc' = "range_loop"
            /\ UNCHANGED ret
    /\ UNCHANGED << call, input, output, now, calls, faults >>

\* An exception leaves refine_episode (lines 298-302 are outside any try):
\* it reaches the direct caller, or passes through refine_episode_range,
\* which has no handler.
EpisodeRaise ==
    /\ pc = "ep_raise"
    /\ ep' = NoFrame
    /\ IF ep.caller = "direct"
       THEN /\ ret' = [ kind |-> "raised", code |-> 0 ]
            /\ pc' = "idle"
       ELSE /\ pc' = "range_raise"
            /\ UNCHANGED ret
    /\ UNCHANGED << call, input, output, now, rng, calls, faults, prev, counted >>

\* An exception leaves refine_episode_range: main catches it and exits 1
\* (lines 528-530), a direct caller gets it.
RangeRaise ==
    /\ pc = "range_raise"
    /\ ret' = IF rng.via = "main" THEN [ kind |-> "exit", code |-> 1 ]
                                  ELSE [ kind |-> "raised", code |-> 0 ]
    /\ pc' = "idle"
    /\ UNCHANGED << call, input, output, now, ep, rng, calls, faults, prev, counted >>

\* Line 478: the loop is over and the aggregate is returned.
RangeReturn ==
    /\ pc = "range_loop"
    /\ rng.cur > rng.end_id
    /\ IF rng.via = "main"
       THEN /\ pc' = "main_summary"
            /\ UNCHANGED << ret, rng >>
       ELSE /\ ret' = [ kind |-> "range", code |-> 0 ]
            /\ pc' = "idle"
            /\ UNCHANGED rng
    /\ UNCHANGED << call, input, output, now, ep, calls, faults, prev, counted >>

\* Lines 521-526 of main: the summary is written under a name that carries
\* the time of writing; a failing write ends in the handler of line 528.
MainSummary ==
    /\ pc = "main_summary"
    /\ \E t \in now..MaxClock :
          /\ now' = t
          /\ \/ /\ output' = [ output EXCEPT !.summaries = @ \cup
                                  { [ stamp |-> StampStr(t), stats |-> rng.overall ] } ]
                /\ ret' = [ kind |-> "exit", code |-> 0 ]
                /\ UNCHANGED faults
             \/ /\ Fault
                /\ output' = output
                /\ ret' = [ kind |-> "exit", code |-> 1 ]
    /\ pc' = "idle"
    /\ UNCHANGED << call, input, ep, rng, calls, prev, counted >>

(***************************************************************************)
(* The trees the pipeline starts on.                                       *)
(***************************************************************************)
StepPrefix(id) == << "episode", "_", IdStr(id), "_", "step", "_" >>

\* The ground-truth image of a step, and the candidate <step>_<suffix>.png.
Image(id, step) == StepPrefix(id) \o step \o << ".", "png" >>

Candidate(id, step, suffix) == StepPrefix(id) \o step \o << "_" >> \o suffix \o << ".", "png" >>

\* What an episode directory holds: ground-truth images of some steps, or
\* an image of another format.
EntrySets(id) ==
    { { Image(id, << "0" >>), Image(id, << "1" >>) },
      { Image(id, << "0" >>), Image(id, << "0", "_", "x" >>) },
      { Image(id, << "[", "0", "]" >>) },
      { Image(id, << "0" >>), Image(id, << "[", "0", "]" >>) },
      { Image(id, << "0" >>), StepPrefix(id) \o << "1", ".", "jpg" >> },
      { StepPrefix(id) \o << "0", ".", "jpg" >> } }

\* What generated/screenshots holds.
CandidateSets(id) ==
    { { Candidate(id, << "0" >>, << "a" >>), Candidate(id, << "0" >>, << "b" >>),
        Candidate(id, << "1" >>, << "a" >>) },
      { Candidate(id, << "0" >>, << "a" >>), Candidate(id, << "0", "_", "x" >>, << "a" >>) },
      { Candidate(id, << "0", "_", "x" >>, << "a" >>) },
      { Candidate(id, << "1" >>, << "a" >>), Candidate(id, << "[", "0", "]" >>, << "a" >>) },
      {} }

EmptyOutput ==
    [ regen |-> [ id \in Ids |-> "absent" ],
      html |-> [ id \in Ids |-> {} ],
      png |-> [ id \in Ids |-> {} ],
      logs |-> [ id \in Ids |-> << >> ],
      summaries |-> {},
      temps |-> 0 ]

\* Episode 1 alone: its directory with some entries and candidates, or
\* without generated/screenshots, without generated/, or with a
\* regenerated that no mkdir can make.
OneEpisodeTree ==
    \E entries \in EntrySets(1), shots \in CandidateSets(1),
       layout \in { "full", "no_screenshots_dir", "no_generated", "blocked" } :
       /\ layout # "full" => shots = {}
       /\ input = [ base |-> TRUE,
                    epDirs |-> { 1 },
                    gt |-> [ id \in Ids |-> IF id = 1 THEN entries ELSE {} ],
                    genDirs |-> IF layout = "no_generated" THEN {} ELSE { 1 },
                    shotDirs |-> IF layout \in { "full", "blocked" } THEN { 1 } ELSE {},
                    shots |-> [ id \in Ids |-> IF id = 1 THEN shots ELSE {} ] ]
       /\ output = [ EmptyOutput EXCEPT !.regen[1] = IF layout = "blocked" THEN "blocked" ELSE "absent" ]

\* What an episode directory of a many-episode tree looks like.
Layouts == { "missing", "no_generated", "blocked", "one_step" }

\* Several episodes, each missing, without generated/, blocked, or with a
\* step that has a candidate; or no base directory at all.
ManyEpisodeTree ==
    \E base \in BOOLEAN, layout \in [ EpisodeIds -> Layouts ] :
       LET there(id) == base /\ id \in EpisodeIds /\ layout[id] # "missing"
           full(id) == there(id) /\ layout[id] \in { "one_step", "blocked" }
       IN  /\ base \/ \A id \in EpisodeIds : layout[id] = "missing"
           /\ input = [ base |-> base,
                        epDirs |-> { id \in Ids : there(id) },
                        gt |-> [ id \in Ids |->
                                   IF full(id)
                                   THEN { Image(id, << "0" >>) }
                                   ELSE {} ],
                        genDirs |-> { id \in Ids : there(id) /\ layout[id] # "no_generated" },
                        shotDirs |-> { id \in Ids : full(id) },
                        shots |-> [ id \in Ids |->
                                      IF full(id)
                                      THEN { Candidate(id, << "0" >>, << "a" >>) }
                                      ELSE {} ] ]
           /\ output = [ EmptyOutput EXCEPT !.regen =
                           [ id \in Ids |-> IF there(id) /\ layout[id] = "blocked"
                                            THEN "blocked" ELSE "absent" ] ]

Quiet ==
    /\ now = 0
    /\ ep = NoFrame
    /\ rng = NoRange
    /\ ret = [ kind |-> "none", code |-> 0 ]
    /\ calls = 0
    /\ faults = 0
    /\ prev = [ id \in Ids |-> [ returned |-> FALSE, outcomes |-> {} ] ]
    /\ counted = [ id \in Ids |-> << >> ]
    /\ call = NoCall

\* The files generated/screenshots of episode 1 can hold when the locator
\* alone is called: the candidates of the trees above, and candidates of
\* step 0 with the suffixes 0900, 1000, 9 and 10.
LocatorEntries ==
    UNION CandidateSets(1)
    \cup { Candidate(1, << "0" >>, x) :
             x \in { << "0", "9", "0", "0" >>, << "1", "0", "0", "0" >>,
                     << "9" >>, << "1", "0" >> } }

LocatorSteps ==
    { StepPrefix(1) \o x : x \in { << "0" >>, << "1" >>, << "0", "_", "x" >>, << "[", "0", "]" >> } }

LocatorTree ==
    \E shots \in SUBSET LocatorEntries, there \in BOOLEAN :
       /\ there \/ shots = {}
       /\ input = [ base |-> TRUE, epDirs |-> { 1 },
                    gt |-> [ id \in Ids |-> {} ],
                    genDirs |-> { 1 },
                    shotDirs |-> IF there THEN { 1 } ELSE {},
                    shots |-> [ id \in Ids |-> IF id = 1 THEN shots ELSE {} ] ]
       /\ output = EmptyOutput

\* A direct call of find_latest_generated_file(generated_dir, step_name,
\* 'screenshots') on episode 1; the frame keeps the step and the result.
CallLocator ==
    /\ pc = "locator"
    /\ \E step_name \in LocatorSteps :
          ep' = [ NoFrame EXCEPT !.id = 1, !.step_name = step_name,
                                 !.cand = FindLatestGeneratedFile(1 \in input.shotDirs,
                                                                  input.shots[1], step_name,
                                                                  "screenshots") ]
    /\ pc' = "located"
    /\ UNCHANGED << call, input, output, now, rng, ret, calls, faults, prev, counted >>

\* A direct call of _clean_html_response(html).
CallClean ==
    /\ pc = "requester"
    /\ \E html \in Texts :
          call' = [ NoCall EXCEPT !.fn = "clean", !.html = html,
                                  !.out = Outcome("none", 0, 0, CleanHtmlResponse(html)) ]
    /\ pc' = "returned"
    /\ UNCHANGED << input, output, now, ep, rng, ret, calls, faults, prev, counted >>

\* A direct call of refine_html on two paths that exist or not, with a
\* service that answers html or fails.
CallRefineHtml ==
    /\ pc = "requester"
    /\ \E gt_exists \in BOOLEAN, cand_exists \in BOOLEAN,
          service \in { "ok", ServiceError }, html \in Texts :
          call' = [ fn |-> "refine_html", html |-> html, gt_exists |-> gt_exists,
                    cand_exists |-> cand_exists, service |-> service,
                    out |-> RefineHtml(gt_exists, cand_exists, service, html) ]
    /\ pc' = "returned"
    /\ UNCHANGED << input, output, now, ep, rng, ret, calls, faults, prev, counted >>

\* No episode on disk: the requester is called on paths of its own.
RequesterTree ==
    /\ input = [ base |-> TRUE, epDirs |-> {},
                 gt |-> [ id \in Ids |-> {} ],
                 genDirs |-> {}, shotDirs |-> {},
                 shots |-> [ id \in Ids |-> {} ] ]
    /\ output = EmptyOutput

InitRequester == RequesterTree /\ Quiet /\ pc = "requester"

NextRequester == CallClean \/ CallRefineHtml

SpecRequester == InitRequester /\ [][NextRequester]_vars

Init == OneEpisodeTree /\ Quiet /\ pc = "idle"

InitLocator == LocatorTree /\ Quiet /\ pc = "locator"

InitRange == ManyEpisodeTree /\ Quiet /\ pc = "start"

EpisodeSteps ==
    \/ StepLocate
    \/ StepResume
    \/ StepRefine
    \/ StepSave
    \/ StepRender
    \/ StepLog
    \/ EpisodeReturn
    \/ EpisodeRaise

Next == InvokeEpisode \/ EpisodeSteps

RangeSteps ==
    \/ InvokeRange
    \/ Main
    \/ RangeVisit
    \/ RangeReturn
    \/ RangeRaise
    \/ MainSummary

NextRange == RangeSteps \/ EpisodeSteps

\* Sequences of direct refine_episode invocations on one episode directory.
Spec == Init /\ [][Next]_vars

\* Calls of find_latest_generated_file on any generated/screenshots.
SpecLocator == InitLocator /\ [][CallLocator]_vars

\* Runs of refine_episode_range and of main on a tree of several episodes.
SpecRange == InitRange /\ [][NextRange]_vars

(***************************************************************************)
(* Properties.                                                             *)
(***************************************************************************)
SeqToSet(q) == { q[i] : i \in 1..Len(q) }

\* The number of ground-truth images refine_episode discovers for an
\* episode: none when it leaves before looking.
Discovered(id) ==
    IF id \in input.genDirs
    THEN Cardinality(Glob(input.gt[id], GroundTruthPattern(id)))
    ELSE 0

\* The step a refined markup file belongs to by its name:
\* <step>_refined_<two digits>.html.
StepOfHtml(name) == SubSeq(name, 1, Len(name) - 7)

\* C1: when refine_episode returns, steps_processed + steps_skipped is the
\* number of ground-truth images discovered (0 on a fast exit), whatever
\* mix of already refined, candidate-less, successful and failing steps.
C1_ProcessedPlusSkipped ==
    pc = "ep_return" =>
        ep.stats.steps_processed + ep.stats.steps_skipped = Discovered(ep.id)

\* A return with one step processed and one step failed.
C1_Witness ==
    /\ pc = "ep_return"
    /\ ep.stats.steps_processed = 1
    /\ ep.stats.steps_skipped = 1
    /\ Len(ep.stats.errors) = 1

C3_ProcessedAtMostOnce ==
    \A id \in Ids :
        /\ \A i, j \in 1..Len(counted[id]) : counted[id][i] = counted[id][j] => i = j
        /\ \A f, g \in output.html[id] : StepOfHtml(f) = StepOfHtml(g) => f = g

\* C4: for every processed step, the timestamp of the log entry is the
\* clock reading that names the refined markup file and the refined
\* screenshot.
C4_OneClockReading ==
    \A id \in Ids : \A i \in 1..Len(output.logs[id]) :
        LET e == output.logs[id][i].entry
        IN  /\ e.refined_html = HtmlFilename(e.step_name, StampStr(e.timestamp))
            /\ e.refined_screenshot \subseteq
                  { ScreenshotFilename(e.step_name, StampStr(e.timestamp)) }

\* The message of the exception a failing comparison request, markup save
\* or log append raises.
C5_Message ==
    [ step_refine |-> "comparison failed", step_save |-> "save failed",
      step_log |-> "log failed" ]

\* C5: when the comparison request, the markup save or the log append of a
\* step raises, the step is counted as skipped, one error string with the
\* step name and the exception's message is appended, and the loop goes on
\* with the next discovered step; every discovered step is handled before
\* the return, and no exception leaves refine_episode once a step has begun.
C5_StepFailureAbsorbed ==
    /\ [][ (pc \in { "step_refine", "step_save", "step_log" } /\ faults' = faults + 1) =>
              /\ ep'.stats.steps_skipped = ep.stats.steps_skipped + 1
              /\ ep'.stats.steps_processed = ep.stats.steps_processed
              /\ ep'.stats.errors =
                    Append(ep.stats.errors, [ step |-> ep.step_name, msg |-> C5_Message[pc] ])
              /\ ep'.todo = Tail(ep.todo)
              /\ pc' = IF ep'.todo = << >> THEN "ep_return" ELSE "step_locate" ]_vars
    /\ [](pc = "ep_return" => Len(ep.outcomes) = Discovered(ep.id))
    /\ [](pc = "ep_raise" => ep.events = << >>)

\* A return after the first step failed and the second was processed.
C5_Witness ==
    /\ pc = "ep_return"
    /\ Len(ep.outcomes) = 2
    /\ ep.outcomes[1].state = "ERRORED"
    /\ ep.outcomes[2].state = "PROCESSED"
    /\ Len(ep.stats.errors) = 1

\* The episode directory of an id, or its generated/, is absent.
Absent(id) == id \notin input.epDirs \/ id \notin input.genDirs

\* C6: between two ids of the range loop, episodes_skipped counts the
\* visited ids whose directory or generated/ is absent, these ids add
\* nothing to episodes_processed, to the step totals or to the details,
\* refine_episode is never called for them, and the ids from start_id on
\* have been visited without a gap; a range of one absent id returns
\* total_episodes = 1, episodes_skipped = 1 and zeros.
C6_AbsentEpisodeSkipped ==
    /\ ep.caller = "range" => ~Absent(ep.id)
    /\ \A id \in Ids : (Absent(id) /\ rng.via # "none") => ~prev[id].returned
    /\ pc = "range_loop" =>
          LET seen == rng.visited
              absent == { i \in 1..Len(seen) : Absent(seen[i]) }
          IN  /\ seen = [ i \in 1..(rng.cur - rng.start_id) |-> rng.start_id + i - 1 ]
              /\ rng.overall.episodes_skipped = Cardinality(absent)
              /\ rng.overall.episodes_processed = Len(seen) - Cardinality(absent)
              /\ Len(rng.overall.episode_details) = Len(seen) - Cardinality(absent)
              /\ \A d \in SeqToSet(rng.overall.episode_details) : ~Absent(d.episode_id)
              /\ (\A i \in 1..Len(seen) : Absent(seen[i])) =>
                    /\ rng.overall.total_steps_processed = 0
                    /\ rng.overall.total_steps_skipped = 0
              /\ (rng.start_id = rng.end_id /\ rng.cur > rng.end_id /\ Absent(rng.start_id)) =>
                    rng.overall = [ NewOverall EXCEPT !.total_episodes = 1,
                                                      !.episodes_skipped = 1 ]

\* The end of a range whose first id was absent and whose second id was
\* processed.
C6_Witness ==
    /\ pc = "range_loop"
    /\ rng.cur > rng.end_id
    /\ Len(rng.visited) = 2
    /\ Absent(rng.visited[1])
    /\ rng.overall.episodes_skipped = 1
    /\ rng.overall.episodes_processed = 1
    /\ rng.overall.total_steps_processed = 1

\* C7 as stated: refine_episode_range, called with start_id < 1 or
\* end_id < start_id, signals an error, returns no stats and visits nothing.
C7_RangeDriverValidates ==
    (rng.via # "none" /\ (rng.start_id < 1 \/ rng.end_id < rng.start_id)) =>
        /\ pc \in { "range_raise", "idle" }
        /\ rng.visited = << >>
        /\ pc = "idle" => ret.kind \in { "raised", "exit" }

\* C7 amended: main checks the bounds before it builds the refiner: with
\* start_id < 1 or end_id < start_id it exits with status 1, visits no
\* episode and writes no summary.  refine_episode_range itself checks
\* nothing: called directly on an existing base directory with
\* end_id < start_id it returns the all-zero stats, and otherwise it
\* returns having visited start_id..end_id whatever start_id is.
C7_MainValidates ==
    /\ (rng.via = "main" /\ (rng.start_id < 1 \/ rng.end_id < rng.start_id)) =>
          /\ pc = "idle"
          /\ ret = [ kind |-> "exit", code |-> 1 ]
          /\ rng.visited = << >>
          /\ ep = NoFrame
          /\ output.summaries = {}
    /\ (rng.via = "direct" /\ pc = "idle" /\ ret.kind = "range") =>
          /\ rng.end_id < rng.start_id => rng.overall = NewOverall
          /\ rng.visited = [ i \in 1..(rng.end_id - rng.start_id + 1) |-> rng.start_id + i - 1 ]

\* main has refused the bounds 0..1.
C7_Witness ==
    /\ pc = "idle"
    /\ rng.via = "main"
    /\ rng.start_id = 0
    /\ rng.end_id = 1
    /\ ret = [ kind |-> "exit", code |-> 1 ]
    /\ input.epDirs # {}

\* C8: only an invalid configuration aborts a range run: an exception
\* leaves refine_episode_range only before the first id is visited.
C8_OnlyConfigurationAborts ==
    pc = "range_raise" => rng.visited = << >>

\* C9: with the base directory unspecified or absent, refine_episode_range
\* raises before any episode is visited, any file is written or the
\* comparison service is called, and main ends with status 1 and no summary.
C9_BaseDirectoryChecked ==
    (rng.via # "none" /\ (rng.base_dir = "none" \/ ~input.base)) =>
        /\ pc \in { "range_raise", "idle" }
        /\ rng.visited = << >>
        /\ ep = NoFrame
        /\ \A id \in Ids :
              /\ ~prev[id].returned
              /\ output.html[id] = {}
              /\ output.png[id] = {}
              /\ output.logs[id] = << >>
              /\ output.regen[id] # "ready"
        /\ output.summaries = {}
        /\ pc = "idle" =>
              ret = IF rng.via = "main" THEN [ kind |-> "exit", code |-> 1 ]
                                        ELSE [ kind |-> "raised", code |-> 0 ]

\* main has ended with status 1 on an unspecified base directory, with
\* valid bounds and episodes on disk.
C9_Witness ==
    /\ pc = "idle"
    /\ rng.via = "main"
    /\ rng.base_dir = "none"
    /\ rng.start_id = 1
    /\ rng.end_id >= 1
    /\ input.epDirs # {}
    /\ ret = [ kind |-> "exit", code |-> 1 ]

\* C10: when several files of the target directory match the step's
\* pattern, find_latest_generated_file returns the one whose name is
\* lexicographically greatest; of <step 0>_0900.png and <step 0>_1000.png
\* it returns <step 0>_1000.png.
C10_LexicographicallyGreatest ==
    pc = "located" =>
        LET matches == Glob(input.shots[1], LocatorPattern(ep.step_name, "screenshots"))
        IN  (1 \in input.shotDirs /\ Cardinality(matches) >= 2) =>
                /\ \E m \in matches :
                      /\ ep.cand = { m }
                      /\ \A y \in matches \ { m } : LexLess(y, m)
                /\ matches = { Candidate(1, << "0" >>, << "0", "9", "0", "0" >>),
                               Candidate(1, << "0" >>, << "1", "0", "0", "0" >>) }
                      => ep.cand = { Candidate(1, << "0" >>, << "1", "0", "0", "0" >>) }

\* The locator has chosen between <step 0>_0900.png and <step 0>_1000.png.
C10_Witness ==
    /\ pc = "located"
    /\ ep.step_name = StepPrefix(1) \o << "0" >>
    /\ input.shots[1] = { Candidate(1, << "0" >>, << "0", "9", "0", "0" >>),
                          Candidate(1, << "0" >>, << "1", "0", "0", "0" >>) }
    /\ ep.cand = { Candidate(1, << "0" >>, << "1", "0", "0", "0" >>) }

\* C11: find_latest_generated_file returns None exactly when
\* generated/<subdir> does not exist or none of its files matches the
\* step's pattern, and otherwise returns one of the files of the directory
\* that match the pattern.
C11_AbsentExactlyWhenNothingMatches ==
    pc = "located" =>
        LET matches == Glob(input.shots[1], LocatorPattern(ep.step_name, "screenshots"))
        IN  /\ ep.cand = {} <=> (1 \notin input.shotDirs \/ matches = {})
            /\ ep.cand # {} => \E m \in matches \cap input.shots[1] : ep.cand = { m }

\* The locator has returned None for a step in a directory that holds only
\* files of other steps.
C11_Witness ==
    /\ pc = "located"
    /\ 1 \in input.shotDirs
    /\ input.shots[1] # {}
    /\ ep.cand = {}

\* C12: render_html never lets an exception reach its caller: whatever
\* fails inside a render invocation, the call of line 359 returns and the
\* step goes on to its log entry.
C12_RenderNeverRaises ==
    [][ pc = "step_render" => pc' = "step_log" ]_vars

\* C13: no temporary file of a render invocation exists once the
\* invocation has ended, whichever way it ended.
C13_TemporaryFileRemoved ==
    output.temps = 0

\* C14: a render_html that returns None, for lack of Playwright or because
\* the render threw, changes nothing in the stats and leaves the saved
\* markup in place; the log append that follows counts the step as
\* processed with no error, and its entry names a refined screenshot
\* exactly when render_html returned a path, in which case the file exists.
C14_RenderFailureStillProcessed ==
    /\ [][ (pc = "step_render" /\ pc' = "step_log" /\ ~ep'.rendered) =>
              /\ ep'.stats = ep.stats
              /\ ep'.wrote = ep.wrote
              /\ ep.wrote \in output'.html[ep.id] ]_vars
    /\ [][ (pc = "step_log" /\ faults' = faults) =>
              /\ Len(output'.logs[ep.id]) = Len(output.logs[ep.id]) + 1
              /\ LET e == output'.logs[ep.id][Len(output'.logs[ep.id])].entry
                 IN  /\ e.step_name = ep.step_name
                     /\ e.refined_screenshot # {} <=> ep.rendered
                     /\ e.refined_screenshot \subseteq output.png[ep.id]
              /\ ep'.stats = [ ep.stats EXCEPT !.steps_processed = @ + 1 ]
              /\ ep'.outcomes[Len(ep'.outcomes)].state = "PROCESSED" ]_vars

\* A return after a step whose render threw: the step is processed, no
\* error is recorded and its log entry has no refined screenshot.
C14_Witness ==
    /\ pc = "ep_return"
    /\ faults = 1
    /\ output.temps = 0
    /\ ep.stats.errors = << >>
    /\ ep.stats.steps_processed >= 1
    /\ \E i \in 1..Len(output.logs[ep.id]) :
          output.logs[ep.id][i].entry.refined_screenshot = {}

\* The least element of a non-empty set of numbers.
Least(S) == CHOOSE k \in S : \A m \in S : k <= m

\* r is c without its leading and trailing whitespace.
Trimmed(r, c) ==
    \/ r = << >> /\ \A k \in 1..Len(c) : c[k] \in Whitespace
    \/ \E i \in 1..Len(c), j \in 1..Len(c) :
          /\ i <= j
          /\ r = SubSeq(c, i, j)
          /\ c[i] \notin Whitespace
          /\ c[j] \notin Whitespace
          /\ \A k \in 1..Len(c) : (k < i \/ k > j) => c[k] \in Whitespace

\* The positions of the fences of a text, and of those followed by html.
FencesOf(t) == { k \in 1..Len(t) : t[k] = "fence" }

HtmlFencesOf(t) == { k \in FencesOf(t) : k < Len(t) /\ t[k + 1] = "html" }

\* The content from position start up to the next fence, or to the end of
\* the text when no fence follows.
UpToNextFence(t, start) ==
    LET closers == { k \in FencesOf(t) : k >= start }
    IN  SubSeq(t, start, IF closers = {} THEN Len(t) ELSE Least(closers) - 1)

\* C15 as stated: the cleaned text of a response with a fenced block is the
\* trimmed content between the first opening fence of the text (with its
\* html tag when it has one) and the fence that closes it, also when a
\* plain block precedes an html block; a response without a fence comes
\* back trimmed.
C15_FirstFencedBlock ==
    (pc = "returned" /\ call.out.raised = "none") =>
        LET t == call.html
            first == Least(FencesOf(t))
            start == IF first \in HtmlFencesOf(t) THEN first + 2 ELSE first + 1
        IN  IF FencesOf(t) = {} THEN Trimmed(call.out.html, t)
            ELSE (\E k \in FencesOf(t) : k >= start) =>
                     Trimmed(call.out.html, UpToNextFence(t, start))

\* C15 amended: when the response holds a fence followed by html, the
\* cleaned text is the trimmed content between the first such fence and the
\* next fence after it (or the end of the text), even when a plain block
\* comes earlier; when it holds only plain fences, the trimmed content
\* between the first fence and the next (or the end); without a fence, the
\* response trimmed.
C15_HtmlFenceFirst ==
    (pc = "returned" /\ call.out.raised = "none") =>
        LET t == call.html
        IN  IF HtmlFencesOf(t) # {}
            THEN Trimmed(call.out.html, UpToNextFence(t, Least(HtmlFencesOf(t)) + 2))
            ELSE IF FencesOf(t) # {}
                 THEN Trimmed(call.out.html, UpToNextFence(t, Least(FencesOf(t)) + 1))
                 ELSE Trimmed(call.out.html, t)

\* The cleanup of a response whose plain block x precedes an html block
\* has returned the content of the html block.
C15_Witness ==
    /\ pc = "returned"
    /\ call.fn = "clean"
    /\ call.html = << "fence", "x", "fence", "fence", "html", " ", "fence" >>
    /\ call.out.html = << >>

\* C16: refine_html raises FileNotFoundError whenever the ground-truth path
\* or the candidate path does not exist, having read no image and sent no
\* request.
C16_MissingInputBeforeAnyRead ==
    (pc = "returned" /\ call.fn = "refine_html"
        /\ (~call.gt_exists \/ ~call.cand_exists)) =>
        call.out = [ raised |-> "FileNotFoundError", reads |-> 0, requests |-> 0,
                     html |-> << >> ]

\* refine_html has raised for a candidate path that does not exist, next to
\* a ground truth that does.
C16_Witness ==
    /\ pc = "returned"
    /\ call.fn = "refine_html"
    /\ call.gt_exists
    /\ ~call.cand_exists
    /\ call.out.raised = "FileNotFoundError"

\* The events of a step in the invocation under way, in order.
EventsOf(step_name) == SelectSeq(ep.events, LAMBDA v : v.step = step_name)

\* C17: within one invocation of refine_episode the comparison service is
\* called at most once for a step; a step whose call failed gets no further
\* call of any kind, and the error recorded for it carries the exception
\* the service raised; no step has two terminal states, and at the return
\* every discovered step has one.
C17_NoAutomaticRetry ==
    /\ \A i, j \in 1..Len(ep.events) :
          (ep.events[i].op = "compare" /\ ep.events[j].op = "compare"
              /\ ep.events[i].step = ep.events[j].step) => i = j
    /\ \A i, j \in 1..Len(ep.outcomes) :
          ep.outcomes[i].step = ep.outcomes[j].step => i = j
    /\ \A i \in 1..Len(ep.outcomes) :
          LET o == ep.outcomes[i]
              seen == EventsOf(o.step)
          IN  (o.state = "ERRORED" /\ seen[Len(seen)].op = "compare") =>
                  \E k \in 1..Len(ep.stats.errors) :
                      ep.stats.errors[k] = [ step |-> o.step, msg |-> ServiceError ]
    /\ pc = "ep_return" =>
          { ep.outcomes[i].step : i \in 1..Len(ep.outcomes) }
             = IF ep.id \in input.genDirs
               THEN { Stem(g) : g \in Glob(input.gt[ep.id], GroundTruthPattern(ep.id)) }
               ELSE {}

\* A return from an invocation whose first step ended on a failed call of
\* the service and whose second step was compared and processed.
C17_Witness ==
    /\ pc = "ep_return"
    /\ Len(ep.outcomes) = 2
    /\ ep.outcomes[1].state = "ERRORED"
    /\ ep.stats.errors = << [ step |-> ep.outcomes[1].step, msg |-> ServiceError ] >>
    /\ ep.outcomes[2].state = "PROCESSED"
    /\ Len(SelectSeq(ep.events, LAMBDA v : v.op = "compare")) = 2

\* The lines of one log file of an episode, in order.
FileLines(log, file) == SelectSeq(log, LAMBDA l : l.file = file)

\* The step names of the lines of regenerated/logs of an episode, in order.
LoggedSteps(id) == [ i \in 1..Len(output.logs[id]) |-> output.logs[id][i].entry.step_name ]

\* C18: in every step of the loop of refine_episode the number of lines
\* appended to regenerated/logs is the number added to steps_processed, one
\* or none, and an appended line names the step; hence at the return the
\* lines appended by the invocation are as many as its steps_processed, and
\* between invocations the logged step names are the steps counted as
\* processed, in order.
C18_OneLinePerProcessedStep ==
    /\ [][ (pc \in { "step_locate", "step_resume", "step_refine", "step_save",
                     "step_render", "step_log" }) =>
             (LET before == output.logs[ep.id]
                  after == output'.logs[ep.id]
                  added == ep'.stats.steps_processed - ep.stats.steps_processed
              IN  /\ added \in { 0, 1 }
                  /\ Len(after) = Len(before) + added
                  /\ SubSeq(after, 1, Len(before)) = before
                  /\ added = 1 =>
                        /\ after[Len(after)].entry.step_name = ep.step_name
                        /\ ep'.stats.steps_skipped = ep.stats.steps_skipped
                  /\ ep'.stats.steps_skipped # ep.stats.steps_skipped => after = before) ]_vars
    /\ [](pc = "ep_return" =>
             Len(output.logs[ep.id]) = Len(counted[ep.id]) + ep.stats.steps_processed)
    /\ [](pc = "idle" => \A id \in Ids : LoggedSteps(id) = counted[id])

\* A return from an invocation that processed one step and skipped the
\* other for an error, with one line in the log.
C18_Witness ==
    /\ pc = "ep_return"
    /\ ep.stats.steps_processed = 1
    /\ ep.stats.steps_skipped = 1
    /\ Len(ep.stats.errors) = 1
    /\ Len(output.logs[ep.id]) = 1
    /\ counted[ep.id] = << >>

\* C19: no operation changes what a log file already holds: the lines of
\* every file of regenerated/logs before a step are a prefix of its lines
\* after the step.
C19_LogAppendOnly ==
    [][ \A id \in Ids : \A day \in 0..(MaxClock \div SecondsPerDay) :
          (LET before == FileLines(output.logs[id], day)
               after == FileLines(output'.logs[id], day)
           IN  /\ Len(before) <= Len(after)
               /\ SubSeq(after, 1, Len(before)) = before) ]_vars

\* A log file that received a second line after its first.
C19_Witness ==
    \E id \in Ids :
        /\ Len(output.logs[id]) >= 2
        /\ output.logs[id][1].file = output.logs[id][2].file

\* C20: a refine_episode that returns because generated/ is missing or
\* because no ground-truth image matches has steps_processed = 0,
\* steps_skipped = 0 and exactly one error string, and has called neither
\* the locator nor the comparison service nor the renderer.
C20_FastExits ==
    (pc = "ep_return"
        /\ (ep.id \notin input.genDirs
               \/ Glob(input.gt[ep.id], GroundTruthPattern(ep.id)) = {})) =>
        /\ ep.stats.steps_processed = 0
        /\ ep.stats.steps_skipped = 0
        /\ Len(ep.stats.errors) = 1
        /\ ep.stats.errors[1].msg =
              IF ep.id \notin input.genDirs THEN "No 'generated' directory found"
                                            ELSE "No ground truth images found"
        /\ ep.events = << >>
        /\ ep.outcomes = << >>

\* A return from an episode directory that holds an image, but none that
\* matches the ground-truth pattern.
C20_Witness ==
    /\ pc = "ep_return"
    /\ ep.id \in input.genDirs
    /\ input.gt[ep.id] # {}
    /\ Glob(input.gt[ep.id], GroundTruthPattern(ep.id)) = {}
    /\ Len(ep.stats.errors) = 1

\* refine_episode_range has returned its stats.
RangeReturned == pc = "main_summary" \/ (pc = "idle" /\ ret.kind = "range")

\* C21: between two ids of the range loop and on return, total_episodes =
\* episodes_processed + episodes_skipped and every visited id has been
\* counted once; on return of a run with end_id >= start_id,
\* total_episodes = end_id - start_id + 1.
C21_EpisodeAccounting ==
    /\ (pc = "range_loop" \/ RangeReturned) =>
          /\ rng.overall.total_episodes
                = rng.overall.episodes_processed + rng.overall.episodes_skipped
          /\ rng.overall.total_episodes = Len(rng.visited)
          /\ \A i, j \in 1..Len(rng.visited) : rng.visited[i] = rng.visited[j] => i = j
    /\ (RangeReturned /\ rng.end_id >= rng.start_id) =>
          rng.overall.total_episodes = rng.end_id - rng.start_id + 1

\* A direct call over 1..2 has returned with both episodes processed.
C21_Witness ==
    /\ pc = "idle"
    /\ ret.kind = "range"
    /\ rng.start_id = 1
    /\ rng.end_id = 2
    /\ rng.overall.total_episodes = 2
    /\ rng.overall.episodes_processed = 2

RECURSIVE SumProcessed(_)
SumProcessed(details) ==
    IF details = << >> THEN 0
    ELSE Head(details).steps_processed + SumProcessed(Tail(details))

RECURSIVE SumSkipped(_)
SumSkipped(details) ==
    IF details = << >> THEN 0
    ELSE Head(details).steps_skipped + SumSkipped(Tail(details))

\* C22: at every point of a range run the two step totals are the sums
\* over episode_details; episode_details holds one record per episode
\* counted in episodes_processed, none for an id skipped at the range
\* level, in ascending id order, each with the counts of its episode; the
\* episode being processed is not in the aggregate before it has returned.
C22_StepAggregation ==
    rng.via # "none" =>
        LET details == rng.overall.episode_details
        IN  /\ rng.overall.total_steps_processed = SumProcessed(details)
            /\ rng.overall.total_steps_skipped = SumSkipped(details)
            /\ Len(details) = rng.overall.episodes_processed
            /\ \A i, j \in 1..Len(details) :
                  i < j => details[i].episode_id < details[j].episode_id
            /\ \A i \in 1..Len(details) :
                  /\ details[i].episode_id \in SeqToSet(rng.visited)
                  /\ details[i].episode_id \in input.epDirs \cap input.genDirs
                  /\ prev[details[i].episode_id].returned
                  /\ details[i].steps_processed = Len(counted[details[i].episode_id])
                  /\ details[i].steps_processed + details[i].steps_skipped
                        = Cardinality(prev[details[i].episode_id].outcomes)
            /\ ep.caller = "range" =>
                  \A i \in 1..Len(details) : details[i].episode_id # ep.id
            /\ RangeReturned =>
                  \A id \in SeqToSet(rng.visited) :
                     id \in input.epDirs \cap input.genDirs =>
                        \E i \in 1..Len(details) : details[i].episode_id = id

\* A run over two episodes has returned with a processed step in one and a
\* skipped step in the other.
C22_Witness ==
    /\ RangeReturned
    /\ Len(rng.overall.episode_details) = 2
    /\ rng.overall.total_steps_processed = 1
    /\ rng.overall.total_steps_skipped = 1
    /\ rng.overall.episode_details[1].steps_skipped = 1
    /\ rng.overall.episode_details[2].steps_processed = 1

\* The operations made for a step in the invocation under way, in order.
OpsOf(step_name) ==
    LET seen == EventsOf(step_name) IN [ i \in 1..Len(seen) |-> seen[i].op ]

\* C23 as stated: the resume check of a step comes before its call of the
\* locator, and a step skipped as already refined has had no call of the
\* locator.
C23_ResumeBeforeLocator ==
    /\ \A i \in 1..Len(ep.events) :
          ep.events[i].op = "locate" =>
             \E j \in 1..(i - 1) :
                ep.events[j] = [ op |-> "resume", step |-> ep.events[i].step ]
    /\ \A i \in 1..Len(ep.outcomes) :
          ep.outcomes[i].state = "SKIPPED_ALREADY_REFINED" =>
             \A j \in 1..Len(ep.events) :
                ep.events[j] # [ op |-> "locate", step |-> ep.outcomes[i].step ]

\* C23 amended: for each discovered step the locator is called first and
\* the resume check is made only when it returned a candidate: a step
\* without a candidate ends as SKIPPED_NO_CANDIDATE with no resume check,
\* and a step with a candidate and a file in regenerated/html that matches
\* its resume pattern ends as SKIPPED_ALREADY_REFINED, after its one call
\* of the locator and before any comparison.
C23_LocatorBeforeResume ==
    /\ [](\A i \in 1..Len(ep.events) :
            ep.events[i].op = "resume" =>
               /\ i > 1
               /\ ep.events[i - 1] = [ op |-> "locate", step |-> ep.events[i].step ])
    /\ [](\A i \in 1..Len(ep.outcomes) :
            LET o == ep.outcomes[i]
            IN  /\ o.state = "SKIPPED_NO_CANDIDATE" => OpsOf(o.step) = << "locate" >>
                /\ o.state = "SKIPPED_ALREADY_REFINED" =>
                      /\ OpsOf(o.step) = << "locate", "resume" >>
                      /\ Glob(input.shots[ep.id], LocatorPattern(o.step, "screenshots")) # {})
    /\ [][ (pc = "step_resume"
              /\ Glob(output.html[ep.id], ResumePattern(ep.step_name)) # {}) =>
              /\ ep'.outcomes = Append(ep.outcomes,
                                       [ step |-> ep.step_name,
                                         state |-> "SKIPPED_ALREADY_REFINED",
                                         wrote |-> << >> ])
              /\ ep'.stats = Skipped(ep.stats)
              /\ UNCHANGED output ]_vars

\* A return from an invocation that skipped a step as already refined
\* after calling the locator for it.
C23_Witness ==
    /\ pc = "ep_return"
    /\ \E i \in 1..Len(ep.outcomes) :
          /\ ep.outcomes[i].state = "SKIPPED_ALREADY_REFINED"
          /\ OpsOf(ep.outcomes[i].step) = << "locate", "resume" >>

C25_FailedStepTriedAgain ==
    /\ \A i \in 1..Len(ep.outcomes) :
          LET o == ep.outcomes[i]
          IN  /\ (o.state = "ERRORED" /\ OpsOf(o.step) = << "locate", "resume", "compare" >>)
                    => o.wrote = << >>
              /\ o.state = "SKIPPED_ALREADY_REFINED" =>
                    \E f \in output.html[ep.id] : StepOfHtml(f) = o.step
    /\ \A i \in 1..Len(ep.outcomes) : \A p \in prev[ep.id].outcomes :
          (p.step = ep.outcomes[i].step /\ p.state = "ERRORED" /\ p.wrote = << >>) =>
              ep.outcomes[i].state # "SKIPPED_ALREADY_REFINED"

(***************************************************************************)
(* C26.  Log entries refer to artifacts that exist.                        *)
(***************************************************************************)

\* The name without its extension, the last symbol of the sequence.
Extensionless(name) == SubSeq(name, 1, Len(name) - 1)

\* C26: in every reachable state, the refined_html of every log entry names
\* a file present in regenerated/html of its episode, and a refined_screenshot
\* that is not null names a file present in regenerated/screenshots that
\* differs from the markup file's name in its extension only: same step
\* name, same filename timestamp.
C26_LogEntriesNameArtifacts ==
    \A id \in EpisodeIds : \A i \in 1..Len(output.logs[id]) :
        LET entry == output.logs[id][i].entry
        IN  /\ entry.refined_html \in output.html[id]
            /\ StepOfHtml(entry.refined_html) = entry.step_name
            /\ \A shot \in entry.refined_screenshot :
                  /\ shot \in output.png[id]
                  /\ shot[Len(shot)] = "png"
                  /\ Extensionless(shot) = Extensionless(entry.refined_html)

\* A log holds an entry with a screenshot and an entry without one.
C26_Witness ==
    \E id \in EpisodeIds :
        /\ \E i \in 1..Len(output.logs[id]) : output.logs[id][i].entry.refined_screenshot # {}
        /\ \E i \in 1..Len(output.logs[id]) : output.logs[id][i].entry.refined_screenshot = {}

(***************************************************************************)
(* C27.  The candidate of a step whose name another step's name extends.   *)
(***************************************************************************)

\* The step names of the ground-truth images of an episode.
StepsOf(id) == { Stem(g) : g \in Glob(input.gt[id], GroundTruthPattern(id)) }

\* long is short, then '_', then more characters.
Extends(long, short) ==
    /\ Len(long) > Len(short) + 1
    /\ SubSeq(long, 1, Len(short) + 1) = short \o << "_" >>

\* C27: when the episode holds ground-truth images of two steps, the name
\* of one extending the name of the other with '_' and more characters,
\* the candidate the locator returned for the shorter name is never a file
\* named for the longer one (<longer>_<suffix>.png), and no refined file
\* that satisfies the resume check of the shorter name is a refined file
\* of the longer one.
C27_CandidateBelongsToStep ==
    \A short \in StepsOf(ep.id), long \in StepsOf(ep.id) :
        Extends(long, short) =>
            /\ ep.step_name = short => \A c \in ep.cand : ~Extends(c, long)
            /\ \A f \in output.html[ep.id] :
                  GlobMatch(ResumePattern(short), f) => StepOfHtml(f) # long

(***************************************************************************)
(* C28.  What the cleanup returns.                                         *)
(***************************************************************************)

\* C28: for every input text, the text _clean_html_response returns holds
\* no fence, neither starts nor ends with whitespace, and is a text the
\* cleanup returns unchanged: the cleanup is idempotent.
C28_CleanedTextIsClean ==
    (pc = "returned" /\ call.fn = "clean") =>
        LET cleaned == call.out.html
        IN  /\ FencesOf(cleaned) = {}
            /\ cleaned # << >> =>
                  (cleaned[1] \notin Whitespace /\ cleaned[Len(cleaned)] \notin Whitespace)
            /\ CleanHtmlResponse(cleaned) = cleaned

\* The cleanup of a response with text after its html block, whose content
\* has whitespace on both sides, has returned the content alone.
C28_Witness ==
    /\ pc = "returned"
    /\ call.fn = "clean"
    /\ call.html = << "fence", "html", " ", "x", " ", "fence", "x" >>
    /\ call.out.html = << "x" >>

(***************************************************************************)
(* C29.  What an invocation of refine_episode touches.                     *)
(***************************************************************************)

\* C29: every step of an invocation of refine_episode for an episode leaves
\* the ground-truth images, the generated/ subtrees, the summaries and the
\* regenerated/ subtree of every other episode as they were: it writes
\* under the regenerated/ of its own episode and the temporary file of the
\* render only; and when the episode has no generated/ it leaves everything
\* as it was, regenerated/ not made.
C29_WritesOnlyUnderRegenerated ==
    [][ LET id == IF ep.id # 0 THEN ep.id ELSE ep'.id
        IN  (/\ input' = input
             /\ output'.summaries = output.summaries
             /\ \A other \in Ids \ { id } :
                   /\ output'.regen[other] = output.regen[other]
                   /\ output'.html[other] = output.html[other]
                   /\ output'.png[other] = output.png[other]
                   /\ output'.logs[other] = output.logs[other]
             /\ id \notin input.genDirs => output' = output) ]_vars

\* An invocation on an episode directory with ground-truth images and
\* candidates has written a markup file, a screenshot and a log line, and
\* has returned.
C29_Witness ==
    /\ prev[1].returned
    /\ input.gt[1] # {}
    /\ input.shots[1] # {}
    /\ output.html[1] # {}
    /\ output.png[1] # {}
    /\ output.logs[1] # << >>

(***************************************************************************)
(* C30.  The log file a line goes to.                                      *)
(***************************************************************************)

\* C30: every log line is in the log file of the calendar day of the
\* timestamp of its own entry, also when midnight passes while the step is
\* being processed.
C30_LogFileOfEntryDay ==
    \A id \in EpisodeIds : \A i \in 1..Len(output.logs[id]) :
        output.logs[id][i].file = DayOf(output.logs[id][i].entry.timestamp)

=============================================================================
